---- MODULE Spec2Model ----
(***************************************************************************)
(* gaia: a reverse-geocoding proxy cache (src/src/main.rs).                *)
(*                                                                         *)
(* Two axum handlers, get_geo_reverse and post_geo_reverse_bulk, call      *)
(* geo_reverse, which SELECTs candidate rows of the geocode table by a     *)
(* LIKE prefix, keeps those within 40.0 m, and on an empty result asks the *)
(* provider, INSERTs every returned address and answers with them.         *)
(*                                                                         *)
(* Representation.                                                         *)
(*  - A Rust String is a sequence of one-character strings.                *)
(*  - An f64 coordinate is an integer number of 1e-8 degrees (Unit), which *)
(*    resolves the 5 decimals of the query key and the millimetres of the  *)
(*    distance.  Coordinates stay below 21 degrees so that they fit TLC's  *)
(*    32-bit integers.                                                     *)
(*  - Option<T> is a sequence of length 0 (None) or 1 (Some).              *)
(*  - Every .unwrap() / .expect() that fails is a panic of the handler's   *)
(*    task: the request ends without a response (pc = "aborted") and the   *)
(*    server goes on serving the other tasks.                              *)
(*  - A step of a task runs from one .await to the next; the tasks of       *)
(*    different requests interleave between steps.                         *)
(***************************************************************************)
EXTENDS Integers, Sequences, FiniteSets, TLC

(***************************************************************************)
(* Bounds of the model.                                                    *)
(***************************************************************************)
\* calls of geo_reverse (a GET makes one, a bulk POST one per pair of its
\* body) admitted in one behaviour
MaxLookups == 2
\* rows the geocode table may come to hold: the provider's answers are cut so
\* that the rows inserted and those about to be inserted stay within it
MaxRows == 2

\* the concurrently served connections (tokio tasks)
Procs == {1, 2}

(***************************************************************************)
(* Strings and numbers.                                                    *)
(***************************************************************************)
\* 1 degree, in the model's unit of 1e-8 degree
Unit == 100000000

Digits == <<"0", "1", "2", "3", "4", "5", "6", "7", "8", "9">>

IsDigit(c) == \E i \in 1..10 : Digits[i] = c

DigitVal(c) == (CHOOSE i \in 1..10 : Digits[i] = c) - 1

Abs(x) == IF x < 0 THEN -x ELSE x

RECURSIVE Pow10(_)
Pow10(n) == IF n = 0 THEN 1 ELSE 10 * Pow10(n - 1)

\* the first n characters of s (all of s when it is shorter)
Take(s, n) == SubSeq(s, 1, IF Len(s) < n THEN Len(s) ELSE n)

RECURSIVE ToNat(_)
ToNat(ds) ==
    IF ds = <<>> THEN 0
    ELSE 10 * ToNat(SubSeq(ds, 1, Len(ds) - 1)) + DigitVal(ds[Len(ds)])

RECURSIVE NatDigits(_)
NatDigits(n) ==
    IF n < 10 THEN <<Digits[n + 1]>>
    ELSE Append(NatDigits(n \div 10), Digits[(n % 10) + 1])

\* n written with exactly w digits, zero-padded on the left
RECURSIVE PadDigits(_, _)
PadDigits(n, w) ==
    IF w = 0 THEN <<>>
    ELSE Append(PadDigits(n \div 10, w - 1), Digits[(n % 10) + 1])

(***************************************************************************)
(* str::parse::<f64>() on the decimal notation [sign] digits [. digits]    *)
(* with at least one digit; any other string of the model's alphabet is an *)
(* Err.  The result is [ok, v] with v in Units; fractional digits beyond   *)
(* the eighth are below the model's resolution and are dropped.            *)
(***************************************************************************)
ParseBody(s) == IF s # <<>> /\ s[1] \in {"-", "+"} THEN Tail(s) ELSE s

DotPos(b) ==
    IF \E i \in 1..Len(b) : b[i] = "."
    THEN CHOOSE i \in 1..Len(b) : b[i] = "." /\ \A j \in 1..(i - 1) : b[j] # "."
    ELSE Len(b) + 1

parse_f64(s) ==
    LET b    == ParseBody(s)
        dot  == DotPos(b)
        ip   == SubSeq(b, 1, dot - 1)
        fp   == SubSeq(b, dot + 1, Len(b))
        good == /\ \A i \in 1..Len(ip) : IsDigit(ip[i])
                /\ \A i \in 1..Len(fp) : IsDigit(fp[i])
                /\ Len(ip) + Len(fp) >= 1
        f8   == Take(fp, 8)
        mag  == ToNat(ip) * Unit + ToNat(f8) * Pow10(8 - Len(f8))
    IN  IF good
        THEN [ok |-> TRUE, v |-> IF s[1] = "-" THEN -mag ELSE mag]
        ELSE [ok |-> FALSE, v |-> 0]

(***************************************************************************)
(* format!("{:.5}", x) for an f64 x: the sign, the integer part, a point   *)
(* and exactly five decimals, rounded to nearest.  (An exact tie depends   *)
(* on the binary expansion of x; the inputs of the model contain none.)    *)
(***************************************************************************)
format_5(v) ==
    LET q == (Abs(v) + 500) \div 1000
        body == NatDigits(q \div 100000) \o <<".">> \o PadDigits(q % 100000, 5)
    IN  IF v < 0 THEN <<"-">> \o body ELSE body

(***************************************************************************)
(* format!("{:.4}%", s) for a String s: the precision of a string argument *)
(* is a maximum width, so the pattern is the first four characters of s    *)
(* followed by the LIKE wildcard.  like(s, value) is value LIKE that       *)
(* pattern; over the model's alphabet (digits, point, sign, x) the four    *)
(* characters match only themselves.                                       *)
(***************************************************************************)
format_4(s) == Take(s, 4)

like(s, value) ==
    LET prefix == format_4(s)
    IN  /\ Len(value) >= Len(prefix)
        /\ SubSeq(value, 1, Len(prefix)) = prefix

(***************************************************************************)
(* Data: RadarAddress, Geocode (a row of the geocode table) and            *)
(* GeocodeResponse.  Of the RadarAddress only the two fields the program   *)
(* reads, latitude and longitude, are kept.  The JSON encoding of the      *)
(* address column keeps None as null and a number to well below one Unit.  *)
(***************************************************************************)
Some(x) == <<x>>

None == <<>>

RadarAddress(latitude, longitude) ==
    [latitude |-> latitude, longitude |-> longitude]

Geocode(lat, lon, address) == [lat |-> lat, lon |-> lon, address |-> address]

(***************************************************************************)
(* Location::distance_to(..).meters() of the geoutils crate, in            *)
(* millimetres.  The crate computes the geodesic length; the model works   *)
(* in a neighbourhood of a few hundred metres where one Unit of latitude   *)
(* or of longitude is taken as one millimetre and the length as the sum    *)
(* of the two legs: deterministic, symmetric and zero between equal        *)
(* points, which is all the program relies on.                             *)
(***************************************************************************)
distance_to(alat, alon, qlat, qlon) == Abs(alat - qlat) + Abs(alon - qlon)

\* the 40.0 of the filter, in millimetres
Threshold == 40000

(***************************************************************************)
(* Inputs.  The strings a client may send as lat and lon: a number whose   *)
(* 5-decimal form differs from it, a number 100 m north of it that differs *)
(* in the third decimal, and a string that is no number.  The addresses    *)
(* the provider may answer with: one 39.999 m, one exactly 40.0 m and one  *)
(* 500 m north of (1.00000, 2.00000), and one without a latitude.          *)
(***************************************************************************)
S_1_000004 == <<"1", ".", "0", "0", "0", "0", "0", "4">>

S_1_00100 == <<"1", ".", "0", "0", "1", "0", "0">>

S_x == <<"x">>

S_2_00000 == <<"2", ".", "0", "0", "0", "0", "0">>

RawLats == {S_1_000004, S_1_00100, S_x}

RawLons == {S_2_00000}

\* every string the program parses: the inputs and their normalized forms
Strings ==
    LET raw == RawLats \cup RawLons
    IN  raw \cup {format_5(parse_f64(s).v) : s \in {t \in raw : parse_f64(t).ok}}

\* parse_f64 over Strings, computed once
Parsed == [s \in Strings |-> parse_f64(s)]

parse(s) == Parsed[s]

AddrNear == RadarAddress(Some(100039999), Some(200000000))

AddrEdge == RadarAddress(Some(100040000), Some(200000000))

AddrFar == RadarAddress(Some(100500000), Some(200000000))

AddrNoLat == RadarAddress(None, Some(200000000))

Addresses == {AddrNear, AddrEdge, AddrFar, AddrNoLat}

SeqsUpTo(S, n) == UNION {[1..k -> S] : k \in 0..n}

\* response.addresses of the provider, of at most n addresses
ProviderAnswers(n) == SeqsUpTo(Addresses, n)

\* the query parameters of a GET: each of lat and lon absent or present
LatParams == {None} \cup {Some(s) : s \in RawLats}

LonParams == {None} \cup {Some(s) : s \in RawLons}

\* the JSON body of a bulk POST
BulkGeocodeReverseRequest == [lat : RawLats, lon : RawLons]

\* the bodies of at most n pairs
BulkBodies(n) == SeqsUpTo(BulkGeocodeReverseRequest, n)

(***************************************************************************)
(* State.                                                                  *)
(***************************************************************************)
VARIABLES
    cache,      \* the geocode table: the sequence of its rows, in rowid order
    started,    \* calls of geo_reverse admitted so far
    params,     \* history, per task: the lat and lon query parameters of
                \* its GET request, each None or Some of a string
    pc,         \* per task: idle, lookup, insert, done or aborted
    kind,       \* per task: "get" or "bulk"
    data,       \* per task: the (lat, lon) string pairs handed to geo_reverse
    idx,        \* per task: the pair being resolved (position of the for loop)
    geocodes,   \* per task: geo_reverse's filtered rows of its last SELECT
    addresses,  \* per task: response.addresses of the provider
    ins,        \* per task: addresses already inserted (position of the loop)
    response,   \* per task: the bulk handler's vec of per-request results
    reply,      \* per task: None, or Some of the HTTP status and body sent
    obs,        \* history, per task: key of its last SELECT and the number of
                \* rows the table held then
    calls,      \* history, per task: provider calls of the current resolution
    pos,        \* history, per task: rowids inserted by the current resolution
    last,       \* history, per task: the last resolution that returned Ok
    resolved,   \* history, per task: the Ok results, by sub-request
    failed      \* history, per task: the sub-request that panicked, or 0

vars == <<cache, started, params, pc, kind, data, idx, geocodes, addresses, ins,
          response, reply, obs, calls, pos, last, resolved, failed>>

Init ==
    /\ cache = <<>>
    /\ started = 0
    /\ params = [p \in Procs |-> [lat |-> None, lon |-> None]]
    /\ pc = [p \in Procs |-> "idle"]
    /\ kind = [p \in Procs |-> "get"]
    /\ data = [p \in Procs |-> <<>>]
    /\ idx = [p \in Procs |-> 0]
    /\ geocodes = [p \in Procs |-> <<>>]
    /\ addresses = [p \in Procs |-> <<>>]
    /\ ins = [p \in Procs |-> 0]
    /\ response = [p \in Procs |-> <<>>]
    /\ reply = [p \in Procs |-> None]
    /\ obs = [p \in Procs |-> None]
    /\ calls = [p \in Procs |-> 0]
    /\ pos = [p \in Procs |-> <<>>]
    /\ last = [p \in Procs |-> None]
    /\ resolved = [p \in Procs |-> <<>>]
    /\ failed = [p \in Procs |-> 0]

(***************************************************************************)
(* The pure parts of geo_reverse.                                          *)
(***************************************************************************)
\* the rows of SELECT * FROM geocode WHERE lat LIKE ? AND lon LIKE ?
select(lat, lon) ==
    SelectSeq(cache, LAMBDA g : like(lat, g.lat) /\ like(lon, g.lon))

rowAddresses(rows) == [i \in 1..Len(rows) |-> rows[i].address]

\* the .map closures run without a panic: every unwrap finds its value
unwraps(lat, lon, addrs) ==
    \/ addrs = <<>>
    \/ /\ \A i \in 1..Len(addrs) :
            addrs[i].latitude # None /\ addrs[i].longitude # None
       /\ parse(lat).ok
       /\ parse(lon).ok

GeocodeResponse(lat, lon, a) ==
    [lat |-> lat, lon |-> lon, address |-> a,
     distance |-> distance_to(a.latitude[1], a.longitude[1],
                              parse(lat).v, parse(lon).v)]

\* .map(|a| GeocodeResponse { .. }) over rows or over provider addresses
annotate(lat, lon, addrs) ==
    [i \in 1..Len(addrs) |-> GeocodeResponse(lat, lon, addrs[i])]

\* a filter that lets the threshold itself through
keep_inclusive(g) == g.distance <= Threshold

\* provider addresses put through the cache path's filter as well
provider_results_filtered(lat, lon, addrs) ==
    SelectSeq(annotate(lat, lon, addrs), LAMBDA g : g.distance < Threshold)

\* response.addresses.iter().map(|a| GeocodeResponse { .. }).collect()
provider_results(lat, lon, addrs) == annotate(lat, lon, addrs)

\* .filter(|g| g.distance < 40.0)
keep(g) == g.distance < Threshold

filter(gs) == SelectSeq(gs, keep)

\* a hit test that is off by one
is_hit_above_one(gs) == Len(gs) > 1

\* a hit test that lets the empty set through
is_hit_from_zero(gs) == Len(gs) >= 0

\* if geocodes.len() > 0 { return Ok(geocodes) }
is_hit(gs) == Len(gs) > 0

\* a return that does not wait for the inserts
inserts_not_awaited(n, addrs) == TRUE

\* a return that does not wait for the last insert
inserts_done_before_last(n, addrs) == n >= Len(addrs) - 1

\* for address in response.addresses.iter(): the loop has run to its end
\* once n of the addresses are inserted
inserts_done(n, addrs) == n = Len(addrs)

\* an insert that skips a row the table already holds
insert_or_ignore(table, lat, lon, address) ==
    IF \E i \in 1..Len(table) : table[i] = Geocode(lat, lon, address)
    THEN table
    ELSE Append(table, Geocode(lat, lon, address))

\* an insert that replaces the rows of the same query key
insert_or_replace(table, lat, lon, address) ==
    Append(SelectSeq(table, LAMBDA g : ~(g.lat = lat /\ g.lon = lon)),
           Geocode(lat, lon, address))

\* INSERT INTO geocode(lat,lon,address) VALUES (?, ?, ?)
insert(table, lat, lon, address) == Append(table, Geocode(lat, lon, address))

\* a push at the front
push_front(vec, x) == <<x>> \o vec

\* response.push(..)
push(vec, x) == Append(vec, x)

\* response.into_iter().flatten().collect()
RECURSIVE flatten(_)
flatten(vecs) ==
    IF vecs = <<>> THEN <<>> ELSE Head(vecs) \o flatten(Tail(vecs))

Key(p) == data[p][idx[p]]

(***************************************************************************)
(* How a call of geo_reverse ends in its handler.                          *)
(***************************************************************************)
\* a failure that only drops the pair at hand: the bulk loop goes on
panic_skips(p) ==
    IF kind[p] = "bulk" /\ idx[p] >= 1 /\ idx[p] < Len(data[p])
    THEN /\ idx' = [idx EXCEPT ![p] = idx[p] + 1]
         /\ pc' = [pc EXCEPT ![p] = "lookup"]
         /\ UNCHANGED <<response, reply>>
    ELSE /\ pc' = [pc EXCEPT ![p] = "done"]
         /\ reply' = [reply EXCEPT ![p] =
                Some([status |-> 200, body |-> flatten(response[p])])]
         /\ UNCHANGED <<idx, response>>

\* a failure taken for an empty result: the handler answers as if the
\* resolution had returned no address
panic_answers_empty(p) ==
    IF kind[p] = "bulk" /\ idx[p] < Len(data[p])
    THEN /\ idx' = [idx EXCEPT ![p] = idx[p] + 1]
         /\ pc' = [pc EXCEPT ![p] = "lookup"]
         /\ response' = [response EXCEPT ![p] = Append(response[p], <<>>)]
         /\ UNCHANGED reply
    ELSE /\ pc' = [pc EXCEPT ![p] = "done"]
         /\ reply' = [reply EXCEPT ![p] =
                Some([status |-> 200, body |-> flatten(response[p])])]
         /\ UNCHANGED <<idx, response>>

\* a failed unwrap: the task unwinds, nothing is sent, nothing is undone
panic(p) ==
    /\ pc' = [pc EXCEPT ![p] = "aborted"]
    /\ UNCHANGED <<idx, response, reply>>

\* Ok(result) is back in the handler: get_geo_reverse answers 200 with it,
\* post_geo_reverse_bulk pushes it and goes on with the next pair, or
\* answers 200 with the flattened vec after the last one
return_ok(p, result) ==
    IF kind[p] = "get"
    THEN /\ pc' = [pc EXCEPT ![p] = "done"]
         /\ reply' = [reply EXCEPT ![p] = Some([status |-> 200, body |-> result])]
         /\ UNCHANGED <<idx, response>>
    ELSE LET vec == push(response[p], result)
         IN  /\ response' = [response EXCEPT ![p] = vec]
             /\ IF idx[p] < Len(data[p])
                THEN /\ idx' = [idx EXCEPT ![p] = idx[p] + 1]
                     /\ pc' = [pc EXCEPT ![p] = "lookup"]
                     /\ UNCHANGED reply
                ELSE /\ pc' = [pc EXCEPT ![p] = "done"]
                     /\ reply' = [reply EXCEPT ![p] =
                            Some([status |-> 200, body |-> flatten(vec)])]
                     /\ UNCHANGED idx

\* history: the resolution that returns, and the table's size at that time
record_ok(p, miss, addrs, rowids, table, result) ==
    /\ last' = [last EXCEPT ![p] =
            Some([lat |-> Key(p).lat, lon |-> Key(p).lon, miss |-> miss,
                  addrs |-> addrs, pos |-> rowids, retLen |-> Len(table),
                  result |-> result])]
    /\ resolved' = [resolved EXCEPT ![p] = Append(resolved[p], result)]
    /\ UNCHANGED failed

record_panic(p) ==
    /\ failed' = [failed EXCEPT ![p] = idx[p]]
    /\ UNCHANGED <<last, resolved>>

(***************************************************************************)
(* The handlers' entry.                                                    *)
(***************************************************************************)
accept(p, k, d) ==
    /\ pc[p] \in {"idle", "done", "aborted"}
    /\ started < MaxLookups
    /\ started + Len(d) <= MaxLookups
    \* the tasks are interchangeable: the first request is served by task 1
    /\ started = 0 => p = 1
    /\ started' = started + Len(d)
    /\ kind' = [kind EXCEPT ![p] = k]
    /\ data' = [data EXCEPT ![p] = d]
    /\ geocodes' = [geocodes EXCEPT ![p] = <<>>]
    /\ addresses' = [addresses EXCEPT ![p] = <<>>]
    /\ ins' = [ins EXCEPT ![p] = 0]
    /\ response' = [response EXCEPT ![p] = <<>>]
    /\ obs' = [obs EXCEPT ![p] = None]
    /\ calls' = [calls EXCEPT ![p] = 0]
    /\ pos' = [pos EXCEPT ![p] = <<>>]
    /\ last' = [last EXCEPT ![p] = None]
    /\ resolved' = [resolved EXCEPT ![p] = <<>>]
    /\ failed' = [failed EXCEPT ![p] = 0]
    /\ UNCHANGED cache

\* GET /api/v0/geocode/reverse with the query parameters lat and lon
get_geo_reverse(p, lat, lon) ==
    LET bad_request(text) ==
            /\ accept(p, "get", <<>>)
            /\ idx' = [idx EXCEPT ![p] = 0]
            /\ pc' = [pc EXCEPT ![p] = "done"]
            /\ reply' = [reply EXCEPT ![p] = Some([status |-> 400, body |-> text])]
        unwrap_fails ==
            /\ accept(p, "get", <<>>)
            /\ idx' = [idx EXCEPT ![p] = 0]
            /\ pc' = [pc EXCEPT ![p] = "aborted"]
            /\ reply' = [reply EXCEPT ![p] = None]
    IN  /\ params' = [params EXCEPT ![p] = [lat |-> lat, lon |-> lon]]
        /\ IF lat = None THEN bad_request("missing lat")
           ELSE IF ~parse(lat[1]).ok THEN unwrap_fails
           ELSE IF lon = None THEN bad_request("missing lon")
           ELSE IF ~parse(lon[1]).ok THEN unwrap_fails
           ELSE /\ accept(p, "get", <<[lat |-> format_5(parse(lat[1]).v),
                                       lon |-> format_5(parse(lon[1]).v)]>>)
                /\ idx' = [idx EXCEPT ![p] = 1]
                /\ pc' = [pc EXCEPT ![p] = "lookup"]
                /\ reply' = [reply EXCEPT ![p] = None]

\* POST /api/v0/geocode/reverse/bulk with the JSON array body
post_geo_reverse_bulk(p, body) ==
    /\ accept(p, "bulk", body)
    /\ params' = [params EXCEPT ![p] = [lat |-> None, lon |-> None]]
    /\ IF body = <<>>
       THEN /\ idx' = [idx EXCEPT ![p] = 0]
            /\ pc' = [pc EXCEPT ![p] = "done"]
            /\ reply' = [reply EXCEPT ![p] = Some([status |-> 200, body |-> <<>>])]
       ELSE /\ idx' = [idx EXCEPT ![p] = 1]
            /\ pc' = [pc EXCEPT ![p] = "lookup"]
            /\ reply' = [reply EXCEPT ![p] = None]

(***************************************************************************)
(* geo_reverse.  A step of a task runs from one await to the next: the     *)
(* SELECT with all that follows it up to the first INSERT (the filter, the *)
(* hit test, the blocking provider call), then each INSERT, the last one   *)
(* with the return that follows it.  What a step does besides its one      *)
(* statement on the table is local to the task.                            *)
(***************************************************************************)
\* a SELECT that leaves out the rows whose address lacks a coordinate
found_with_coordinates(p) ==
    SelectSeq(rowAddresses(select(Key(p).lat, Key(p).lon)),
              LAMBDA a : a.latitude # None /\ a.longitude # None)

\* the addresses of the rows the SELECT of p's pair returns
found(p) == rowAddresses(select(Key(p).lat, Key(p).lon))

\* the unwraps of the .map over the rows all succeed
mapped(p) == unwraps(Key(p).lat, Key(p).lon, found(p))

\* let geocodes = ..collect::<Vec<_>>()
collected(p) == filter(annotate(Key(p).lat, Key(p).lon, found(p)))

\* history of a SELECT whose rows were mapped and filtered
observe(p) ==
    /\ geocodes' = [geocodes EXCEPT ![p] = collected(p)]
    /\ obs' = [obs EXCEPT ![p] =
           Some([lat |-> Key(p).lat, lon |-> Key(p).lon, seen |-> Len(cache)])]

\* the code after the insert loop: the distance of every provider address,
\* and Ok(..) to the handler
after_loop(p, addrs, rowids, table) ==
    IF unwraps(Key(p).lat, Key(p).lon, addrs)
    THEN LET result == provider_results(Key(p).lat, Key(p).lon, addrs)
         IN  /\ record_ok(p, TRUE, addrs, rowids, table, result)
             /\ return_ok(p, result)
    ELSE /\ record_panic(p)
         /\ panic(p)

\* the SELECT finds rows within 40 m: Ok(geocodes)
geo_reverse_hit(p) ==
    /\ pc[p] = "lookup"
    /\ mapped(p)
    /\ is_hit(collected(p))
    /\ observe(p)
    /\ addresses' = [addresses EXCEPT ![p] = <<>>]
    /\ ins' = [ins EXCEPT ![p] = 0]
    /\ calls' = [calls EXCEPT ![p] = 0]
    /\ pos' = [pos EXCEPT ![p] = <<>>]
    /\ record_ok(p, FALSE, <<>>, <<>>, cache, collected(p))
    /\ return_ok(p, collected(p))
    /\ UNCHANGED <<cache, started, params, kind, data>>

\* the SELECT finds none: the provider is called and answers
geo_reverse_miss(p, answer) ==
    /\ pc[p] = "lookup"
    /\ mapped(p)
    /\ ~is_hit(collected(p))
    /\ observe(p)
    /\ addresses' = [addresses EXCEPT ![p] = answer]
    /\ ins' = [ins EXCEPT ![p] = 0]
    /\ calls' = [calls EXCEPT ![p] = 1]
    /\ pos' = [pos EXCEPT ![p] = <<>>]
    /\ IF inserts_done(0, answer)
       THEN after_loop(p, answer, <<>>, cache)
       ELSE /\ pc' = [pc EXCEPT ![p] = "insert"]
            /\ UNCHANGED <<idx, response, reply, last, resolved, failed>>
    /\ UNCHANGED <<cache, started, params, kind, data>>

\* a row without latitude or longitude, or a key that is no number while
\* there are rows: an unwrap in the .map over the rows fails
map_fails(p) ==
    /\ pc[p] = "lookup"
    /\ ~mapped(p)
    /\ addresses' = [addresses EXCEPT ![p] = <<>>]
    /\ ins' = [ins EXCEPT ![p] = 0]
    /\ calls' = [calls EXCEPT ![p] = 0]
    /\ pos' = [pos EXCEPT ![p] = <<>>]
    /\ record_panic(p)
    /\ panic(p)
    /\ UNCHANGED <<cache, started, params, kind, data, geocodes, obs>>

\* fetch_all(..).await.unwrap() on a store error
select_fails(p) ==
    /\ pc[p] = "lookup"
    /\ addresses' = [addresses EXCEPT ![p] = <<>>]
    /\ ins' = [ins EXCEPT ![p] = 0]
    /\ calls' = [calls EXCEPT ![p] = 0]
    /\ pos' = [pos EXCEPT ![p] = <<>>]
    /\ record_panic(p)
    /\ panic(p)
    /\ UNCHANGED <<cache, started, params, kind, data, geocodes, obs>>

\* the SELECT finds none and the provider call fails: a missing
\* RADAR_API_KEY, a transport error, a non-2xx status, a bad body
call_fails(p) ==
    /\ pc[p] = "lookup"
    /\ mapped(p)
    /\ ~is_hit(collected(p))
    /\ observe(p)
    /\ addresses' = [addresses EXCEPT ![p] = <<>>]
    /\ ins' = [ins EXCEPT ![p] = 0]
    /\ calls' = [calls EXCEPT ![p] = 1]
    /\ pos' = [pos EXCEPT ![p] = <<>>]
    /\ record_panic(p)
    /\ panic(p)
    /\ UNCHANGED <<cache, started, params, kind, data>>

\* one turn of the insert loop, and after the last one the return
geo_reverse_insert(p) ==
    /\ pc[p] = "insert"
    /\ LET table  == insert(cache, Key(p).lat, Key(p).lon,
                            addresses[p][ins[p] + 1])
           rowids == Append(pos[p], Len(table))
       IN  /\ cache' = table
           /\ ins' = [ins EXCEPT ![p] = ins[p] + 1]
           /\ pos' = [pos EXCEPT ![p] = rowids]
           /\ IF inserts_done(ins[p] + 1, addresses[p])
              THEN after_loop(p, addresses[p], rowids, table)
              ELSE UNCHANGED <<pc, idx, response, reply, last, resolved, failed>>
    /\ UNCHANGED <<started, params, kind, data, geocodes, addresses, obs, calls>>

\* a panic that takes the table back to where its resolution's first insert
\* found it
unwind_rollback(p) ==
    IF pos[p] = <<>> THEN cache ELSE SubSeq(cache, 1, pos[p][1] - 1)

\* the table a panic in the insert loop leaves: every INSERT was executed
\* on the pool by itself, outside any transaction, so the rows the loop has
\* inserted stay
unwind(p) == cache

\* execute(..).await.unwrap() on a store error
insert_fails(p) ==
    /\ pc[p] = "insert"
    /\ cache' = unwind(p)
    /\ record_panic(p)
    /\ panic(p)
    /\ UNCHANGED <<started, params, kind, data, geocodes, addresses, ins, obs,
                   calls, pos>>

\* the rows the table can still take: MaxRows less the rows it holds and the
\* addresses the running insert loops have yet to insert
RECURSIVE Pending(_)
Pending(P) ==
    IF P = {} THEN 0
    ELSE LET p == CHOOSE q \in P : TRUE
         IN  (IF pc[p] = "insert" THEN Len(addresses[p]) - ins[p] ELSE 0)
                 + Pending(P \ {p})

Room == MaxRows - Len(cache) - Pending(Procs)

Next ==
    \E p \in Procs :
        \/ \E lat \in LatParams, lon \in LonParams : get_geo_reverse(p, lat, lon)
        \/ \E body \in BulkBodies(MaxLookups - started) :
                post_geo_reverse_bulk(p, body)
        \/ geo_reverse_hit(p)
        \/ \E answer \in ProviderAnswers(Room) : geo_reverse_miss(p, answer)
        \/ map_fails(p)
        \/ select_fails(p)
        \/ call_fails(p)
        \/ geo_reverse_insert(p)
        \/ insert_fails(p)

Spec == Init /\ [][Next]_vars

(***************************************************************************)
(* Properties.  The history variables make them state predicates: since    *)
(* the table only grows at its end, its first obs[q][1].seen rows are      *)
(* the table that q's last SELECT read, and last[p][1].retLen rows the     *)
(* table at the time p's last resolution returned.                         *)
(***************************************************************************)
Returned(p) == last[p] # None

Ret(p) == last[p][1]

Looked(q) == obs[q] # None

Obs(q) == obs[q][1]

SameKey(a, b) == a.lat = b.lat /\ a.lon = b.lon

\* the rows q's last SELECT returned, as positions of the table
Candidates(q) ==
    {i \in 1..Obs(q).seen :
        like(Obs(q).lat, cache[i].lat) /\ like(Obs(q).lon, cache[i].lon)}

\* the distance the program computes for address a and the key of q's SELECT
DistanceFrom(q, a) ==
    distance_to(a.latitude[1], a.longitude[1],
                parse(Obs(q).lat).v, parse(Obs(q).lon).v)

Kept(q, a) == \E j \in 1..Len(geocodes[q]) : geocodes[q][j].address = a

\* C1: once a resolution of a coordinate has missed, cached at least one
\* provider address and returned, a resolution of the same coordinate that
\* looks the table up next (the table is as the first one left it) is a hit:
\* its filtered set is not empty, so it calls no provider.
C1_RepeatIsHit ==
    \A p \in Procs, q \in Procs :
        ( /\ Returned(p) /\ Ret(p).miss /\ Len(Ret(p).addrs) >= 1
          /\ Looked(q) /\ SameKey(Obs(q), Ret(p))
          /\ Obs(q).seen = Ret(p).retLen )
        => Len(geocodes[q]) > 0

\* C2: after the filter step, every candidate row whose stored lat and lon
\* equal the request's key is in the filtered set, whatever its distance.
C2_ExactRepeatKept ==
    \A q \in Procs :
        Looked(q) =>
            \A i \in Candidates(q) :
                SameKey(cache[i], Obs(q)) => Kept(q, cache[i].address)

\* C3: a resolution whose filtered set is not empty returns that set, with
\* the table as its SELECT found it, having called no provider and inserted
\* no row.
C3_HitNoSideEffects ==
    \A p \in Procs :
        Len(geocodes[p]) > 0 =>
            /\ calls[p] = 0
            /\ pos[p] = <<>>
            /\ addresses[p] = <<>>
            /\ pc[p] # "insert"
            /\ Returned(p)
            /\ ~Ret(p).miss
            /\ Ret(p).result = geocodes[p]
            /\ Ret(p).retLen = Obs(p).seen

C3_Witness ==
    \E p \in Procs :
        /\ Len(geocodes[p]) > 0
        /\ pc[p] = "done"
        /\ reply[p] = Some([status |-> 200, body |-> geocodes[p]])

C5_StrictThreshold ==
    \A q \in Procs :
        Looked(q) =>
            \A i \in Candidates(q) :
                LET a == cache[i].address
                IN  /\ DistanceFrom(q, a) = Threshold => ~Kept(q, a)
                    /\ DistanceFrom(q, a) < Threshold => Kept(q, a)

C5_Witness ==
    \E q \in Procs :
        /\ Looked(q)
        /\ \E i \in Candidates(q) :
              DistanceFrom(q, cache[i].address) = Threshold
        /\ \E i \in Candidates(q) :
              DistanceFrom(q, cache[i].address) = Threshold - 1
        /\ Len(geocodes[q]) = 1

\* C6: when a miss resolution returns, every insert for the provider's
\* addresses has completed: the rows are in the table as it was at the
\* return, so a SELECT of the same key that reads the table at or after
\* that time has them among its rows, and keeps those within 40 m.
C6_WriteThrough ==
    \A p \in Procs :
        (Returned(p) /\ Ret(p).miss) =>
            LET m == Ret(p)
            IN  /\ Len(m.pos) = Len(m.addrs)
                /\ \A i \in 1..Len(m.pos) : m.pos[i] <= m.retLen
                /\ \A q \in Procs :
                     (Looked(q) /\ SameKey(Obs(q), m) /\ Obs(q).seen >= m.retLen)
                     => \A i \in 1..Len(m.addrs) :
                            /\ i <= Len(m.pos)
                            /\ m.pos[i] \in Candidates(q)
                            /\ DistanceFrom(q, m.addrs[i]) < Threshold
                                   => Kept(q, m.addrs[i])

C6_Witness ==
    \E p \in Procs, q \in Procs :
        /\ p # q
        /\ Returned(p) /\ Ret(p).miss /\ Len(Ret(p).addrs) >= 1
        /\ Looked(q) /\ SameKey(Obs(q), Ret(p))
        /\ Obs(q).seen >= Ret(p).retLen
        /\ Kept(q, Ret(p).addrs[1])

\* the rows of the table that equal row r
Copies(r) == Cardinality({i \in 1..Len(cache) : cache[i] = r})

Occurrences(addrs, a) == Cardinality({i \in 1..Len(addrs) : addrs[i] = a})

\* C7: nothing serializes or deduplicates two resolutions of one coordinate:
\* when both have missed and returned, the table holds the rows of both, a
\* row once for each time either provider answer named its address.
C7_MissesAccumulate ==
    \A p \in Procs, q \in Procs :
        ( /\ p # q
          /\ Returned(p) /\ Ret(p).miss
          /\ Returned(q) /\ Ret(q).miss
          /\ SameKey(Ret(p), Ret(q)) )
        => \A a \in Addresses :
               Copies(Geocode(Ret(p).lat, Ret(p).lon, a))
                   >= Occurrences(Ret(p).addrs, a) + Occurrences(Ret(q).addrs, a)

\* both SELECTs ran before either task inserted, both tasks called the
\* provider and inserted, and the table holds the same row twice
C7_Witness ==
    \E p \in Procs, q \in Procs :
        /\ p # q
        /\ Returned(p) /\ Ret(p).miss /\ Ret(p).pos # <<>>
        /\ Returned(q) /\ Ret(q).miss /\ Ret(q).pos # <<>>
        /\ SameKey(Ret(p), Ret(q))
        /\ Obs(p).seen < Ret(q).pos[1]
        /\ Obs(q).seen < Ret(p).pos[1]
        /\ calls[p] = 1 /\ calls[q] = 1
        /\ Ret(p).addrs = <<AddrNear>>
        /\ cache[Ret(p).pos[1]] = cache[Ret(q).pos[1]]

\* C8: every step leaves the rows of the table in place and unchanged, and
\* a step that changes the table appends one row, for the next address of
\* a task in the insert loop of a resolution that missed.
C8_AppendOnly ==
    [][ /\ Len(cache') >= Len(cache)
        /\ SubSeq(cache', 1, Len(cache)) = cache
        /\ cache' # cache =>
              \E p \in Procs :
                  /\ pc[p] = "insert"
                  /\ geocodes[p] = <<>>
                  /\ calls[p] = 1
                  /\ ins[p] < Len(addresses[p])
                  /\ cache' = Append(cache, Geocode(Key(p).lat, Key(p).lon,
                                                    addresses[p][ins[p] + 1]))
      ]_vars

C8_Witness ==
    \E p \in Procs, q \in Procs :
        /\ kind[p] = "get" /\ pos[p] # <<>>
        /\ kind[q] = "bulk" /\ pos[q] # <<>>
        /\ Len(cache) = 2

\* the elements of the results before the i-th
RECURSIVE Offset(_, _)
Offset(r, i) == IF i <= 1 THEN 0 ELSE Offset(r, i - 1) + Len(r[i - 1])

\* C9: the body of a bulk answer is the results of its pairs one after the
\* other in input order: the k-th record of the i-th pair's result stands
\* at place k after all records of the pairs before it.
C9_BulkOrder ==
    \A p \in Procs :
        (kind[p] = "bulk" /\ reply[p] # None) =>
            LET body == reply[p][1].body
                r    == resolved[p]
                n    == Len(data[p])
            IN  /\ reply[p][1].status = 200
                /\ Len(r) = n
                /\ Len(body) = Offset(r, n + 1)
                /\ \A i \in 1..n : \A k \in 1..Len(r[i]) :
                     /\ body[Offset(r, i) + k] = r[i][k]
                     /\ r[i][k].lat = data[p][i].lat
                     /\ r[i][k].lon = data[p][i].lon

C9_Witness ==
    \E p \in Procs :
        /\ kind[p] = "bulk" /\ reply[p] # None
        /\ Len(data[p]) = 2
        /\ resolved[p][1] # <<>>
        /\ resolved[p][2] # <<>>
        /\ resolved[p][1] # resolved[p][2]

\* C10: once the resolution of a pair of a bulk call has failed, the call
\* is aborted at that pair: the task is dead, the loop stands at the failed
\* pair, only the pairs before it were resolved, and nothing was sent.
C10_BulkAbortsAtFirstFailure ==
    \A p \in Procs :
        failed[p] # 0 =>
            /\ pc[p] = "aborted"
            /\ idx[p] = failed[p]
            /\ Len(resolved[p]) = failed[p] - 1
            /\ Len(response[p]) = failed[p] - 1
            /\ reply[p] = None

\* the second pair fails after the first one returned a result
C10_Witness ==
    \E p \in Procs :
        /\ kind[p] = "bulk"
        /\ failed[p] = 2
        /\ resolved[p] # <<>>
        /\ resolved[p][1] # <<>>

\* a GET request that has been handled
Handled(p) == kind[p] = "get" /\ pc[p] \in {"lookup", "insert", "done", "aborted"}

\* C11: a GET request without the lat or without the lon parameter is
\* answered 400 with the body "missing lat" (no lat) or "missing lon" (no
\* lon), and it looks nothing up, calls no provider and inserts no row.
C11_MissingParameter ==
    \A p \in Procs :
        (Handled(p) /\ (params[p].lat = None \/ params[p].lon = None)) =>
            /\ reply[p] # None
            /\ reply[p][1].status = 400
            /\ reply[p][1].body \in
                   {t \in {"missing lat", "missing lon"} :
                       \/ t = "missing lat" /\ params[p].lat = None
                       \/ t = "missing lon" /\ params[p].lon = None}
            /\ obs[p] = None
            /\ calls[p] = 0
            /\ pos[p] = <<>>

\* the lat or the lon of a pair is no number
Malformed(r) == ~parse(r.lat).ok \/ ~parse(r.lon).ok

\* task p was given a lat or a lon that is no number: a query parameter of
\* its GET, or a field of a pair of its bulk body it came to resolve
GivenMalformed(p) ==
    \/ /\ Handled(p)
       /\ \/ params[p].lat # None /\ ~parse(params[p].lat[1]).ok
          \/ params[p].lon # None /\ ~parse(params[p].lon[1]).ok
    \/ /\ kind[p] = "bulk"
       /\ \E i \in 1..idx[p] : Malformed(data[p][i])

\* C12: a request with a lat or lon that is no number is answered with a
\* client error and a diagnostic once it is over, and no row is stored
\* under a key that is no number.
C12_MalformedIsClientError ==
    \A p \in Procs :
        GivenMalformed(p) =>
            /\ pc[p] \in {"done", "aborted"} =>
                   reply[p] # None /\ reply[p][1].status = 400
            /\ \A i \in 1..Len(cache) : ~Malformed(cache[i])

\* a number written with exactly 4 decimals, rounded to nearest: the prefix
\* key of the key s as the 4.2 of the specification words it
prefixKey(s) ==
    LET v == parse(s).v
        q == (Abs(v) + 5000) \div 10000
        body == NatDigits(q \div 10000) \o <<".">> \o PadDigits(q % 10000, 4)
    IN  IF v < 0 THEN <<"-">> \o body ELSE body

BeginsWith(value, prefix) ==
    Len(value) >= Len(prefix) /\ SubSeq(value, 1, Len(prefix)) = prefix

\* C13: the rows a SELECT returns for a key of two numbers are exactly the
\* rows of the table whose stored lat and lon begin with the key's lat and
\* lon written with 4 decimals; a row whose key differs from it within the
\* first 4 decimals is not among them.
C13_PrefixFourDecimals ==
    \A q \in Procs :
        (Looked(q) /\ ~Malformed(Obs(q))) =>
            Candidates(q) =
                {i \in 1..Obs(q).seen :
                    /\ BeginsWith(cache[i].lat, prefixKey(Obs(q).lat))
                    /\ BeginsWith(cache[i].lon, prefixKey(Obs(q).lon))}

\* C14: a resolution that returns Ok returns an empty list exactly when it
\* missed and the provider answered with no address; a hit returns at least
\* one record.
C14_EmptyOnlyFromEmptyAnswer ==
    \A p \in Procs :
        Returned(p) =>
            /\ Ret(p).result = <<>> <=> (Ret(p).miss /\ Ret(p).addrs = <<>>)
            /\ ~Ret(p).miss => Len(Ret(p).result) >= 1

\* a GET misses on rows that are all too far, the provider answers with no
\* address, and the request is answered 200 with the empty list
C14_Witness ==
    \E p \in Procs :
        /\ kind[p] = "get" /\ Returned(p)
        /\ Ret(p).miss /\ Ret(p).addrs = <<>> /\ Ret(p).result = <<>>
        /\ Candidates(p) # {}
        /\ reply[p] = Some([status |-> 200, body |-> <<>>])

HasCoordinates(a) == a.latitude # None /\ a.longitude # None

\* C15: the address of every row of the table has a latitude and a
\* longitude.
C15_StoredHaveCoordinates ==
    \A i \in 1..Len(cache) : HasCoordinates(cache[i].address)

\* the key get_geo_reverse hands to geo_reverse for the lat and lon of r
Normalized(r) ==
    [lat |-> format_5(parse(r.lat).v), lon |-> format_5(parse(r.lon).v)]

\* C16: a pair of numbers of a bulk body is resolved as the GET request
\* with the same lat and lon is, under the 5-decimal key: its SELECT uses
\* the prefix of that key, the rows it inserts are stored under that key
\* and the records it returns carry that key as lat and lon.
C16_BulkAsSingle ==
    \A p \in Procs :
        kind[p] = "bulk" =>
            /\ (Looked(p) /\ ~Malformed(Obs(p))) =>
                  LET k == Normalized(Obs(p))
                  IN  /\ format_4(Obs(p).lat) = format_4(k.lat)
                      /\ format_4(Obs(p).lon) = format_4(k.lon)
                      /\ \A i \in 1..Len(pos[p]) :
                            SameKey(cache[pos[p][i]], k)
            /\ (Returned(p) /\ ~Malformed(Ret(p))) =>
                  \A i \in 1..Len(Ret(p).result) :
                      SameKey(Ret(p).result[i], Normalized(Ret(p)))

\* the provider call of p's resolution failed: the resolution called the
\* provider, got no addresses and panicked
CallFailed(p) == failed[p] # 0 /\ calls[p] = 1 /\ addresses[p] = <<>>

\* C17: a resolution calls the provider at most once, and when that call
\* fails the request is aborted at that resolution: the task is dead,
\* nothing is sent, and the resolution has inserted no row.
C17_ProviderFailureWriteFree ==
    \A p \in Procs :
        /\ calls[p] <= 1
        /\ CallFailed(p) =>
              /\ pc[p] = "aborted"
              /\ idx[p] = failed[p]
              /\ reply[p] = None
              /\ ins[p] = 0
              /\ pos[p] = <<>>

\* the provider call of the second pair of a bulk body fails after the
\* first pair cached a row
C17_Witness ==
    \E p \in Procs :
        /\ CallFailed(p)
        /\ kind[p] = "bulk" /\ failed[p] = 2
        /\ Candidates(p) # {}
        /\ Len(cache) = 1

\* the rows at the positions rowids hold the key (lat, lon) and the first
\* addresses of addrs, in order
RowsRemain(rowids, lat, lon, addrs) ==
    \A i \in 1..Len(rowids) :
        /\ rowids[i] \in 1..Len(cache)
        /\ cache[rowids[i]] = Geocode(lat, lon, addrs[i])

\* C18: after a request has aborted at a resolution, the rows that
\* resolution had inserted before it failed and the rows of the sub-request
\* resolved before it are in the table, and a SELECT that reads the table
\* after such a row was inserted and matches its key has it among its rows
\* and keeps it when it is within 40 m.
C18_NoRollback ==
    \A p \in Procs :
        failed[p] # 0 =>
            /\ RowsRemain(pos[p], Key(p).lat, Key(p).lon, addresses[p])
            /\ (Returned(p) /\ Ret(p).miss) =>
                   RowsRemain(Ret(p).pos, Ret(p).lat, Ret(p).lon, Ret(p).addrs)
            /\ \A q \in Procs \ {p} : \A i \in 1..Len(pos[p]) :
                   ( /\ Looked(q) /\ Obs(q).seen >= pos[p][i]
                     /\ like(Obs(q).lat, Key(p).lat)
                     /\ like(Obs(q).lon, Key(p).lon) )
                   => /\ pos[p][i] \in Candidates(q)
                      /\ ( /\ HasCoordinates(addresses[p][i])
                           /\ ~Malformed(Obs(q))
                           /\ DistanceFrom(q, addresses[p][i]) < Threshold )
                         => Kept(q, addresses[p][i])

\* the second insert of a miss failed, and the row of the first insert is
\* returned to a later request as a hit
C18_Witness ==
    \E p \in Procs, q \in Procs :
        /\ p # q
        /\ failed[p] # 0
        /\ Len(addresses[p]) = 2 /\ Len(pos[p]) = 1
        /\ Len(cache) = 1
        /\ Looked(q) /\ Obs(q).seen = 1
        /\ Kept(q, addresses[p][1])
        /\ reply[q] = Some([status |-> 200, body |-> geocodes[q]])

\* the table holds a row that a SELECT for (lat, lon) returns and whose
\* address lacks a coordinate
Poisoned(lat, lon) ==
    \E i \in 1..Len(cache) :
        /\ like(lat, cache[i].lat)
        /\ like(lon, cache[i].lon)
        /\ ~HasCoordinates(cache[i].address)

\* C19: (1) the step that ends the insert loop of a miss whose provider
\* answer has an address without latitude or longitude leaves every address
\* of the answer in the table, that one included, and aborts the request;
\* (2) no step removes or changes a row whose address lacks a coordinate;
\* (3) a resolution that looks the table up while a row matching its
\* prefix lacks a coordinate aborts in that step, before its filtered set
\* is formed, without a provider call and with nothing sent.
C19_Poisoning ==
    [][ /\ \A p \in Procs :
              ( /\ pc[p] = "insert"
                /\ ins'[p] = Len(addresses[p])
                /\ ins'[p] # ins[p]
                /\ \E i \in 1..Len(addresses[p]) :
                       ~HasCoordinates(addresses[p][i]) )
              => /\ pc'[p] = "aborted"
                 /\ reply'[p] = None
                 /\ Len(pos'[p]) = Len(addresses[p])
                 /\ \A i \in 1..Len(addresses[p]) :
                       cache'[pos'[p][i]]
                           = Geocode(Key(p).lat, Key(p).lon, addresses[p][i])
        /\ \A i \in 1..Len(cache) :
              ~HasCoordinates(cache[i].address)
              => i <= Len(cache') /\ cache'[i] = cache[i]
        /\ \A p \in Procs :
              ( /\ pc[p] = "lookup"
                /\ Poisoned(Key(p).lat, Key(p).lon)
                /\ <<pc'[p], idx'[p]>> # <<pc[p], idx[p]>> )
              => /\ pc'[p] = "aborted"
                 /\ failed'[p] = idx[p]
                 /\ obs'[p] = obs[p]
                 /\ geocodes'[p] = geocodes[p]
                 /\ calls'[p] = 0
                 /\ reply'[p] = None
                 /\ cache' = cache
      ]_vars

\* a miss has stored an address without latitude and aborted, and the
\* lookup of another request, for a different key with the same prefix,
\* has aborted on that row
C19_Witness ==
    \E p \in Procs, q \in Procs :
        /\ p # q
        /\ failed[p] # 0 /\ pos[p] # <<>>
        /\ Len(pos[p]) = Len(addresses[p])
        /\ ~HasCoordinates(addresses[p][1])
        /\ cache[pos[p][1]].address = addresses[p][1]
        /\ failed[q] # 0 /\ pc[q] = "aborted"
        /\ obs[q] = None /\ calls[q] = 0 /\ pos[q] = <<>>
        /\ ~SameKey(Key(q), Key(p))
        /\ Poisoned(Key(q).lat, Key(q).lon)

\* every record of gs is within 40 m of its key
AllNear(gs) == \A k \in 1..Len(gs) : gs[k].distance < Threshold

\* C20: the pairs of a bulk body are resolved one after the other.  When
\* the lookup of a pair that repeats the pair before it is due, and that
\* one missed and returned provider addresses all within 40 m, every row of
\* that miss is in the table, so the lookup finds them and is a hit; and
\* when the repeated pair has been resolved, it was a hit that inserted
\* nothing and returned the records of the pair before it.
C20_BulkSequential ==
    \A p \in Procs :
        kind[p] = "bulk" =>
            /\ ( /\ pc[p] = "lookup" /\ idx[p] >= 2
                 /\ data[p][idx[p]] = data[p][idx[p] - 1]
                 /\ Returned(p) /\ Ret(p).miss
                 /\ Ret(p).addrs # <<>> /\ AllNear(Ret(p).result) )
               => /\ Len(Ret(p).pos) = Len(Ret(p).addrs)
                  /\ RowsRemain(Ret(p).pos, Key(p).lat, Key(p).lon, Ret(p).addrs)
                  /\ mapped(p) =>
                        /\ is_hit(collected(p))
                        /\ \A k \in 1..Len(Ret(p).result) :
                              \E j \in 1..Len(collected(p)) :
                                  collected(p)[j] = Ret(p).result[k]
            /\ LET n == Len(resolved[p])
               IN  ( /\ n >= 2
                     /\ data[p][n] = data[p][n - 1]
                     /\ resolved[p][n - 1] # <<>>
                     /\ AllNear(resolved[p][n - 1]) )
                   => /\ ~Ret(p).miss
                      /\ Ret(p).pos = <<>>
                      /\ \A k \in 1..Len(resolved[p][n - 1]) :
                            \E j \in 1..Len(resolved[p][n]) :
                                resolved[p][n][j] = resolved[p][n - 1][k]

\* a bulk call with the same pair twice on an empty table: the first one
\* missed and cached the one row of the table, the second one returned it
C20_Witness ==
    \E p \in Procs :
        /\ kind[p] = "bulk" /\ Len(data[p]) = 2
        /\ data[p][1] = data[p][2]
        /\ Len(resolved[p]) = 2
        /\ ~Ret(p).miss
        /\ Len(cache) = 1 /\ SameKey(cache[1], data[p][1])
        /\ resolved[p][2] = resolved[p][1]
        /\ reply[p] = Some([status |-> 200,
                            body |-> resolved[p][1] \o resolved[p][2]])

====
